---- MODULE Spec2Model ----
(***************************************************************************)
(* Model of the request-analytics service (src/server): the log store,     *)
(* ingestion through /track, the aggregation engine behind /dashboard      *)
(* (services.compute_summary and its queries) and the filter builder       *)
(* behind /raw_logs (services.build_log_filters); the auth router          *)
(* (src/server/auth.py) and the tracking middleware of the instrumented    *)
(* applications (src/client_middleware).                                   *)
(*                                                                         *)
(* Conventions.                                                            *)
(*  - An optional value (Python None / SQL NULL) is a sequence of length   *)
(*    0 or 1: None == <<>>, Some(x) == <<x>>.                              *)
(*  - A float is an exact rational [n, d] in lowest terms.  process_time   *)
(*    is given in thousandths, so rounding to 2 decimals is a real step.   *)
(*  - A datetime is [day, min]: a day number (day 0 is Monday 2024-12-23)  *)
(*    and the minute of that day.  A date is a day number.                 *)
(***************************************************************************)
EXTENDS Integers, Sequences, FiniteSets, TLC

VARIABLES logs, agg, req, resp, users, keys, authreq, mw

vars == <<logs, agg, req, resp, users, keys, authreq, mw>>

\* the user and apikey tables and the requests of the auth router, and the
\* tracking middleware of an instrumented application: the routes of
\* routers.py read the two tables and write none of these
outside == <<users, keys, authreq, mw>>

----------------------------------------------------------------------------
(* Bounds of the model *)

MaxIngest == 2      \* /track calls on top of the initial store
NumKeys == 2        \* stored API keys, ids 1..NumKeys

KeyIds == 1..NumKeys

----------------------------------------------------------------------------
(* Optional values and exact rationals *)

None == <<>>
Some(x) == <<x>>
IsNone(o) == o = <<>>
Val(o) == o[1]

RECURSIVE Gcd(_, _)
Gcd(a, b) == IF b = 0 THEN a ELSE Gcd(b, a % b)

\* the float n/d (n >= 0, d > 0), in lowest terms
Rat(n, d) == LET g == Gcd(n, d) IN [n |-> n \div g, d |-> d \div g]

RatLeq(x, y) == x.n * y.d <= y.n * x.d

\* Python truthiness of an optional number: None and 0 are falsy
Truthy(o) == ~IsNone(o) /\ Val(o).n # 0

\* nearest integer to n/d, ties to the even neighbour (Python round)
RoundHalfEven(n, d) ==
    LET q == n \div d
        r == n % d
    IN  IF 2 * r < d THEN q
        ELSE IF 2 * r > d THEN q + 1
        ELSE IF q % 2 = 0 THEN q ELSE q + 1

\* round(x, 2)
Round2(x) == Rat(RoundHalfEven(x.n * 100, x.d), 100)

\* the validators' "if val: val = round(val, 2)"
RoundIfTruthy(o) == IF Truthy(o) THEN Some(Round2(Val(o))) ELSE o

RECURSIVE SumOver(_, _)
\* sum of f[x] over the finite set S
SumOver(f, S) ==
    IF S = {} THEN 0
    ELSE LET x == CHOOSE y \in S : TRUE IN f[x] + SumOver(f, S \ {x})

----------------------------------------------------------------------------
(* Dates and datetimes *)

MinutesPerDay == 1440

Dt(d, m) == [day |-> d, min |-> m]

DtLeq(a, b) == a.day < b.day \/ (a.day = b.day /\ a.min <= b.min)

\* datetime.combine(d, time.min) and datetime.combine(d, time.max)
DayStart(d) == Dt(d, 0)
DayEnd(d) == Dt(d, MinutesPerDay - 1)

\* calendar of the days 0..39: day 0 is Monday 2024-12-23, day 9 is 2025-01-01
Year(d) == IF d <= 8 THEN 2024 ELSE 2025
Month(d) == IF d <= 8 THEN 12 ELSE 1
DayOfMonth(d) == IF d <= 8 THEN 23 + d ELSE d - 8
\* day of the year counted from 0, weekday counted from Monday = 0
YearDay(d) == IF d <= 8 THEN 357 + d ELSE d - 9
WeekDay(d) == d % 7
\* strftime %W: week of the year, weeks start on Monday, the days before
\* the year's first Monday are week 0
WeekOfYear(d) == (YearDay(d) + 7 - WeekDay(d)) \div 7

Periods == {"minutely", "hourly", "daily", "weekly", "monthly"}

\* strftime(mapping[period], created_at): the zero-padded fields of the
\* key, most significant first; keys of one period compare as the strings do
BucketKey(period, t) ==
    CASE period = "minutely" ->
            <<Year(t.day), Month(t.day), DayOfMonth(t.day), t.min \div 60, t.min % 60>>
      [] period = "hourly" ->
            <<Year(t.day), Month(t.day), DayOfMonth(t.day), t.min \div 60>>
      [] period = "daily" -> <<Year(t.day), Month(t.day), DayOfMonth(t.day)>>
      [] period = "weekly" -> <<Year(t.day), WeekOfYear(t.day)>>
      [] period = "monthly" -> <<Year(t.day), Month(t.day)>>

RECURSIVE LexLess(_, _)
\* lexicographic order on two keys of the same length
LexLess(a, b) ==
    IF a = <<>> THEN FALSE
    ELSE IF Head(a) # Head(b) THEN Head(a) < Head(b)
    ELSE LexLess(Tail(a), Tail(b))

----------------------------------------------------------------------------
(* Strings: TLC strings are atoms, so the characters of the strings the    *)
(* model uses and the ASCII codes of those characters are tabulated        *)

Chars ==
    "" :> <<>>
    @@ "/us" :> <<"/", "u", "s">>
    @@ "/U_E" :> <<"/", "U", "_", "E">>
    @@ "/users" :> <<"/", "u", "s", "e", "r", "s">>
    @@ "/items" :> <<"/", "i", "t", "e", "m", "s">>
    @@ "/orders" :> <<"/", "o", "r", "d", "e", "r", "s">>
    @@ "/products" :> <<"/", "p", "r", "o", "d", "u", "c", "t", "s">>
    @@ "/reviews" :> <<"/", "r", "e", "v", "i", "e", "w", "s">>
    @@ "/categories" :> <<"/", "c", "a", "t", "e", "g", "o", "r", "i", "e", "s">>
    @@ "GET" :> <<"G", "E", "T">>
    @@ "POST" :> <<"P", "O", "S", "T">>
    @@ "PUT" :> <<"P", "U", "T">>
    @@ "DELETE" :> <<"D", "E", "L", "E", "T", "E">>
    @@ "PATCH" :> <<"P", "A", "T", "C", "H">>
    @@ "OPTIONS" :> <<"O", "P", "T", "I", "O", "N", "S">>
    @@ "192.168.0.1" :> <<"1", "9", "2", ".", "1", "6", "8", ".", "0", ".", "1">>
    @@ "192.168.0.2" :> <<"1", "9", "2", ".", "1", "6", "8", ".", "0", ".", "2">>
    @@ "192.168.0.3" :> <<"1", "9", "2", ".", "1", "6", "8", ".", "0", ".", "3">>
    @@ "192.168.0.4" :> <<"1", "9", "2", ".", "1", "6", "8", ".", "0", ".", "4">>
    @@ "192.168.0.5" :> <<"1", "9", "2", ".", "1", "6", "8", ".", "0", ".", "5">>
    @@ "192.168.0.6" :> <<"1", "9", "2", ".", "1", "6", "8", ".", "0", ".", "6">>
    @@ " " :> <<" ">>
    @@ "\t" :> <<"\t">>
    @@ "null" :> <<"n", "u", "l", "l">>
    @@ "NULL" :> <<"N", "U", "L", "L">>
    @@ "None" :> <<"N", "o", "n", "e">>
    @@ "get" :> <<"g", "e", "t">>
    @@ "FETCH" :> <<"F", "E", "T", "C", "H">>
    @@ "/Users" :> <<"/", "U", "s", "e", "r", "s">>
    @@ "/aaa...(201 characters)" :> [i \in 1..201 |-> IF i = 1 THEN "/" ELSE "a"]
    @@ "key-a" :> <<"k", "e", "y", "-", "a">>
    @@ "key-b" :> <<"k", "e", "y", "-", "b">>
    @@ "key-c" :> <<"k", "e", "y", "-", "c">>
    @@ "key-d" :> <<"k", "e", "y", "-", "d">>
    @@ "invalid" :> <<"i", "n", "v", "a", "l", "i", "d">>
    @@ "aaa...(65 characters)" :> [i \in 1..65 |-> "a"]

CharCode ==
    "\t" :> 9 @@ " " :> 32 @@ "-" :> 45 @@ "F" :> 70 @@ "b" :> 98
    @@ "k" :> 107 @@ "l" :> 108 @@ "n" :> 110 @@ "y" :> 121
    @@ "%" :> 37 @@ "." :> 46 @@ "/" :> 47 @@ "0" :> 48 @@ "1" :> 49
    @@ "2" :> 50 @@ "3" :> 51 @@ "4" :> 52 @@ "5" :> 53 @@ "6" :> 54
    @@ "8" :> 56 @@ "9" :> 57 @@ "A" :> 65 @@ "C" :> 67 @@ "D" :> 68
    @@ "E" :> 69 @@ "G" :> 71 @@ "H" :> 72 @@ "I" :> 73 @@ "L" :> 76
    @@ "N" :> 78 @@ "O" :> 79 @@ "P" :> 80 @@ "S" :> 83 @@ "T" :> 84
    @@ "U" :> 85 @@ "_" :> 95 @@ "a" :> 97 @@ "c" :> 99 @@ "d" :> 100
    @@ "e" :> 101 @@ "g" :> 103 @@ "i" :> 105 @@ "m" :> 109 @@ "o" :> 111
    @@ "p" :> 112 @@ "r" :> 114 @@ "s" :> 115 @@ "t" :> 116 @@ "u" :> 117
    @@ "v" :> 118 @@ "w" :> 119

\* ASCII lower-casing of a character code
LowerCode(c) == IF c >= 65 /\ c <= 90 THEN c + 32 ELSE c

RECURSIVE SeqLess(_, _)
\* the order of two strings under SQLite's BINARY collation
SeqLess(a, b) ==
    IF b = <<>> THEN FALSE
    ELSE IF a = <<>> THEN TRUE
    ELSE IF Head(a) # Head(b) THEN CharCode[Head(a)] < CharCode[Head(b)]
    ELSE SeqLess(Tail(a), Tail(b))

StrLess(s, t) == SeqLess(Chars[s], Chars[t])

RECURSIVE LikeSeq(_, _)
\* SQLite's  str LIKE pat : % matches any run of characters, _ any one
\* character, ASCII letters match in either case
LikeSeq(pat, str) ==
    IF pat = <<>> THEN str = <<>>
    ELSE IF Head(pat) = "%"
         THEN \/ LikeSeq(Tail(pat), str)
              \/ str # <<>> /\ LikeSeq(pat, Tail(str))
    ELSE IF str = <<>> THEN FALSE
    ELSE /\ \/ Head(pat) = "_"
            \/ LowerCode(CharCode[Head(pat)]) = LowerCode(CharCode[Head(str)])
         /\ LikeSeq(Tail(pat), Tail(str))

\* Log.endpoint.contains(x):  endpoint LIKE '%' || x || '%'
SqlContains(s, x) == LikeSeq(<<"%">> \o Chars[x] \o <<"%">>, Chars[s])

\* the string whose characters are seq
Str(seq) == CHOOSE s \in DOMAIN Chars : Chars[s] = seq

StrLen(s) == Len(Chars[s])

\* the characters [\x00-\x1F\x7F] that clean_string removes
IsControl(c) == CharCode[c] <= 31 \/ CharCode[c] = 127

\* str.strip() removes whitespace: the space, and the control characters
\* \t \n \v \f \r \x1c..\x1f
IsSpace(c) ==
    \/ CharCode[c] = 32
    \/ CharCode[c] >= 9 /\ CharCode[c] <= 13
    \/ CharCode[c] >= 28 /\ CharCode[c] <= 31

RECURSIVE LStrip(_)
LStrip(seq) ==
    IF seq # <<>> /\ IsSpace(Head(seq)) THEN LStrip(Tail(seq)) ELSE seq

RECURSIVE RStrip(_)
RStrip(seq) ==
    IF seq # <<>> /\ IsSpace(seq[Len(seq)])
    THEN RStrip(SubSeq(seq, 1, Len(seq) - 1))
    ELSE seq

\* NULLABLE_VALUES without the lower-case "null"
NULLABLE_VALUES_without_null == {"", " ", "NULL", "None"}

NULLABLE_VALUES == {"", " ", "null", "NULL", "None"}

\* schemas.clean_string: None, or the string without control characters
\* and without surrounding whitespace
clean_string(s) ==
    IF s = "" \/ s \in NULLABLE_VALUES THEN None
    ELSE LET cleaned == SelectSeq(Chars[s], LAMBDA c : ~IsControl(c))
         IN  IF cleaned = <<>> THEN None
             ELSE Some(Str(RStrip(LStrip(cleaned))))

----------------------------------------------------------------------------
(* Log rows *)

LogRow(id, key, at, method, endpoint, ip, pt, status) ==
    [id |-> id, api_key_id |-> key, created_at |-> at, method |-> method,
     endpoint |-> endpoint, ip |-> ip, process_time |-> pt,
     status_code |-> status]

----------------------------------------------------------------------------
(* The body of POST /track and its validation by schemas.LogInput *)

\* a JSON value: a string, a number (given in thousandths), null, or a
\* field the body does not have
JStr(s) == [t |-> "str", s |-> s, n |-> 0]
JNum(n) == [t |-> "num", s |-> "", n |-> n]
JInt(n) == JNum(1000 * n)
JNull == [t |-> "null", s |-> "", n |-> 0]
Missing == [t |-> "missing", s |-> "", n |-> 0]

\* a JSON body; extra: the body has a field LogBase does not declare
Payload(at, method, endpoint, ip, pt, status) ==
    [created_at |-> at, method |-> method, endpoint |-> endpoint, ip |-> ip,
     process_time |-> pt, status_code |-> status, extra |-> FALSE]

\* datetime.fromisoformat(value.replace("Z", "+00:00")) on the strings it
\* parses; it raises on every other string
FromIso ==
    "2024-12-28T00:00:00" :> Dt(5, 0)
    @@ "2024-12-28T23:59:00Z" :> Dt(5, 1439)
    @@ "2024-12-29T00:00:00" :> Dt(6, 0)
    @@ "2024-12-26T10:00:00" :> Dt(3, 600)

\* the strings pydantic parses as a number, in thousandths
NumStr == "200" :> 200000

\* the outcome of validating one field: the value, or an error
Valid(v) == [ok |-> TRUE, v |-> <<v>>]
Invalid == [ok |-> FALSE, v |-> <<>>]

\* sanitize_log: clean_string on the string values of endpoint, ip, method
Clean(value) ==
    IF value.t # "str" THEN value
    ELSE LET c == clean_string(value.s)
         IN  IF IsNone(c) THEN JNull ELSE JStr(Val(c))

sanitize_log(values) ==
    [values EXCEPT !.endpoint = Clean(@), !.ip = Clean(@), !.method = Clean(@)]

AllowedMethods == {"GET", "POST", "PUT", "DELETE", "PATCH", "OPTIONS"}

\* validate_method, then max_length = 200; the regex is matched as written,
\* with no IGNORECASE flag (the value has no line break left to end on)
validate_method(value) ==
    IF value.t # "str" THEN Invalid
    ELSE IF value.s \notin AllowedMethods THEN Invalid
    ELSE IF StrLen(value.s) > 200 THEN Invalid
    ELSE Valid(value.s)

normalize_datetime(value) ==
    IF value.t = "str" /\ value.s \in DOMAIN FromIso THEN Valid(FromIso[value.s])
    ELSE Invalid

\* endpoint: str = Field(..., min_length=1, max_length=200)
EndpointField(value) ==
    IF value.t = "str" /\ StrLen(value.s) >= 1 /\ StrLen(value.s) <= 200
    THEN Valid(value.s)
    ELSE Invalid

\* ip: str | None = Field(None, min_length=7, max_length=45)
IpField(value) ==
    IF value.t \in {"null", "missing"} THEN Valid(None)
    ELSE IF value.t = "str" /\ StrLen(value.s) >= 7 /\ StrLen(value.s) <= 45
    THEN Valid(Some(value.s))
    ELSE Invalid

\* a JSON number, or a string that parses as one
Number(value) ==
    IF value.t = "num" THEN Valid(value.n)
    ELSE IF value.t = "str" /\ value.s \in DOMAIN NumStr THEN Valid(NumStr[value.s])
    ELSE Invalid

\* process_time without its ge=0 bound
ProcessTimeField_unbounded(value) == Number(value)

\* process_time: float = Field(..., ge=0), kept in thousandths
ProcessTimeField(value) ==
    LET x == Number(value)
    IN  IF x.ok /\ Val(x.v) >= 0 THEN x ELSE Invalid

\* status_code: int = Field(..., ge=100, le=599); a number with a
\* fractional part is not an int
StatusCodeField(value) ==
    LET x == Number(value)
    IN  IF x.ok /\ Val(x.v) % 1000 = 0 /\ Val(x.v) >= 100000 /\ Val(x.v) <= 599000
        THEN Valid(Val(x.v) \div 1000)
        ELSE Invalid

\* a validated LogInput, as log.model_dump() gives it
LogInput(at, method, endpoint, ip, pt, status) ==
    [created_at |-> at, method |-> method, endpoint |-> endpoint, ip |-> ip,
     process_time |-> pt, status_code |-> status]

\* LogInput.model_validate(body): ok, and then the LogInput
LogInputValidate(body) ==
    LET values == sanitize_log(body)
        at == normalize_datetime(values.created_at)
        method == validate_method(values.method)
        endpoint == EndpointField(values.endpoint)
        ip == IpField(values.ip)
        pt == ProcessTimeField(values.process_time)
        status == StatusCodeField(values.status_code)
        ok == /\ ~values.extra
              /\ at.ok /\ method.ok /\ endpoint.ok /\ ip.ok /\ pt.ok /\ status.ok
    IN  [ok |-> ok,
         log |-> IF ok
                 THEN <<LogInput(Val(at.v), Val(method.v), Val(endpoint.v),
                                 Val(ip.v), Val(pt.v), Val(status.v))>>
                 ELSE <<>>]

\* the bodies the clients send that pass validation
Users0 ==
    Payload(JStr("2024-12-28T00:00:00"), JStr("GET"), JStr("/users"),
            JStr("192.168.0.1"), JNum(0), JInt(200))
ItemsNoIp ==
    Payload(JStr("2024-12-28T23:59:00Z"), JStr("POST"), JStr("/items"),
            JStr(""), JNum(125), JInt(404))
UsersCapital ==
    Payload(JStr("2024-12-29T00:00:00"), JStr("GET"), JStr("/Users"),
            JStr("192.168.0.2"), JNum(250), JInt(500))
Orders ==
    Payload(JStr("2024-12-26T10:00:00"), JStr("PUT"), JStr("/orders"),
            JStr("192.168.0.1"), JNum(705), JInt(201))

ValidPayloads ==
    { Users0, ItemsNoIp, UsersCapital, Orders,
      [ItemsNoIp EXCEPT !.ip = JStr("null")],
      [ItemsNoIp EXCEPT !.ip = JStr("None")],
      [ItemsNoIp EXCEPT !.ip = JNull] }

\* ... and the bodies that break one rule of LogBase each
InvalidPayloads ==
    { [Users0 EXCEPT !.method = JStr("get")],
      [Users0 EXCEPT !.method = JStr("FETCH")],
      [Users0 EXCEPT !.method = JStr("")],
      [Users0 EXCEPT !.method = Missing],
      [Users0 EXCEPT !.status_code = JInt(600)],
      [Users0 EXCEPT !.status_code = JInt(99)],
      [Users0 EXCEPT !.status_code = JNum(200500)],
      [Users0 EXCEPT !.status_code = JStr("abc")],
      [Users0 EXCEPT !.process_time = JNum(0 - 1)],
      [Users0 EXCEPT !.created_at = JInt(123)],
      [Users0 EXCEPT !.created_at = JStr("yesterday")],
      [Users0 EXCEPT !.endpoint = JStr("")],
      [Users0 EXCEPT !.endpoint = JStr("\t")],
      [Users0 EXCEPT !.endpoint = JStr("/aaa...(201 characters)")],
      [Users0 EXCEPT !.ip = JStr(" "), !.endpoint = Missing],
      [Users0 EXCEPT !.extra = TRUE] }

\* the seven rows of the seed_logs fixture, one per day, the last day first
SeedLogs ==
    << LogRow(1, 1, Dt(9, 600), "GET", "/users", Some("192.168.0.1"), 100, 200),
       LogRow(2, 1, Dt(8, 600), "POST", "/items", Some("192.168.0.2"), 200, 201),
       LogRow(3, 1, Dt(7, 600), "PUT", "/orders", Some("192.168.0.3"), 300, 500),
       LogRow(4, 1, Dt(6, 600), "DELETE", "/products", Some("192.168.0.4"), 400, 404),
       LogRow(5, 1, Dt(5, 600), "PATCH", "/reviews", Some("192.168.0.5"), 500, 200),
       LogRow(6, 1, Dt(4, 600), "OPTIONS", "/categories", Some("192.168.0.6"), 600, 503),
       LogRow(7, 1, Dt(3, 600), "GET", "/users", Some("192.168.0.1"), 700, 200) >>

Rows(store) == {store[i] : i \in 1..Len(store)}

IsError(r) == r.status_code >= 400 /\ r.status_code <= 599

SumPt(F) == SumOver([r \in F |-> r.process_time], F)

\* func.avg(process_time) over the rows F (F non-empty), process_time in
\* thousandths
AvgPt(F) == Rat(SumPt(F), 1000 * Cardinality(F))

MinPt(F) == CHOOSE m \in {r.process_time : r \in F} :
                \A r \in F : m <= r.process_time
MaxPt(F) == CHOOSE m \in {r.process_time : r \in F} :
                \A r \in F : m >= r.process_time

----------------------------------------------------------------------------
(* The aggregation queries of services.py, each over the rows F that the  *)
(* filtered_logs CTE selects at the moment the query runs                  *)

\* filter_by_time_key without its api_key_id condition
filter_by_time_key_any_owner(store, api_key, start, end) ==
    {r \in Rows(store) :
        /\ DtLeq(DayStart(start), r.created_at)
        /\ DtLeq(r.created_at, DayEnd(end))}

\* the rows selected by the CTE of filter_by_time_key
filter_by_time_key(store, api_key, start, end) ==
    {r \in Rows(store) :
        /\ r.api_key_id = api_key
        /\ DtLeq(DayStart(start), r.created_at)
        /\ DtLeq(r.created_at, DayEnd(end))}

get_total_req(F) == Cardinality(F)

\* the result row of the min/avg/max query: three NULLs over no rows
ResTimeRow(F) ==
    IF F = {} THEN [min |-> None, avg |-> None, max |-> None]
    ELSE [min |-> Some(Rat(MinPt(F), 1000)),
          avg |-> Some(AvgPt(F)),
          max |-> Some(Rat(MaxPt(F), 1000))]

get_res_time_stats(F) ==
    LET row == ResTimeRow(F)
    IN  IF Truthy(row.min) /\ Truthy(row.avg) /\ Truthy(row.max)
        THEN row
        ELSE [min |-> Some(Rat(0, 1)), avg |-> Some(Rat(0, 1)),
              max |-> Some(Rat(0, 1))]

\* get_unique_ips counting NULL as one more ip
get_unique_ips_with_null(F) == Cardinality({r.ip : r \in F})

get_unique_ips(F) == Cardinality({r.ip : r \in F} \ {None})

\* the first query of get_errors_rate
ErrorsCount(F) == Cardinality({r \in F : IsError(r)})

\* get_errors_rate with an integer division
get_errors_rate_floor(errors, total_requests) ==
    IF total_requests # 0 THEN Rat((errors * 100) \div total_requests, 1)
    ELSE Rat(0, 1)

\* get_errors_rate, given the results of its two queries
get_errors_rate(errors, total_requests) ==
    IF total_requests # 0 THEN Rat(errors * 100, total_requests)
    ELSE Rat(0, 1)

\* get_method_usage with count(ip), which skips the rows without ip
get_method_usage_count_ip(F) ==
    [m \in {r.method : r \in F} |->
        Cardinality({r \in F : r.method = m /\ r.ip # None})]

get_method_usage(F) ==
    [m \in {r.method : r \in F} |-> Cardinality({r \in F : r.method = m})]

get_status_codes(F) ==
    [c \in {r.status_code : r \in F} |->
        Cardinality({r \in F : r.status_code = c})]

RECURSIVE SortRows(_, _, _)
\* the rows of S as a sequence, a before b when Before(a, b, tb)
SortRows(S, Before(_, _, _), tb) ==
    IF S = {} THEN <<>>
    ELSE LET a == CHOOSE x \in S : \A y \in S \ {x} : Before(x, y, tb)
         IN  <<a>> \o SortRows(S \ {a}, Before, tb)

\* LIMIT n
Limit(seq, n) == SubSeq(seq, 1, IF Len(seq) < n THEN Len(seq) ELSE n)

TopLimit == 5
TimeSeriesLimit == 50

\* SQL leaves the order of groups with equal counts open: the group seen
\* first in the table comes first, or last
TieBreaks == {"first", "last"}

FirstId(G) == CHOOSE i \in {r.id : r \in G} : \A r \in G : i <= r.id

\* ORDER BY count(id) without DESC
ByRequestsAsc(a, b, tb) ==
    \/ a.requests < b.requests
    \/ /\ a.requests = b.requests
       /\ IF tb = "first" THEN a.first < b.first ELSE a.first > b.first

\* ORDER BY count(id) DESC
ByRequestsDesc(a, b, tb) ==
    \/ a.requests > b.requests
    \/ /\ a.requests = b.requests
       /\ IF tb = "first" THEN a.first < b.first ELSE a.first > b.first

TopIpGroups(F) ==
    {[ip |-> g, requests |-> Cardinality({r \in F : r.ip = g}),
      first |-> FirstId({r \in F : r.ip = g})] : g \in {r.ip : r \in F}}

get_top_ips(F, tb) ==
    LET top == Limit(SortRows(TopIpGroups(F), ByRequestsDesc, tb), TopLimit)
    IN  [i \in 1..Len(top) |-> [ip |-> top[i].ip, requests |-> top[i].requests]]

EndpointGroups(F) ==
    {LET G == {r \in F : r.endpoint = e}
     IN  [endpoint |-> e, requests |-> Cardinality(G), avg_time |-> Some(AvgPt(G)),
          errors_count |-> ErrorsCount(G), first |-> FirstId(G)] :
     e \in {r.endpoint : r \in F}}

get_endpoint_stats(F, tb) ==
    LET top == Limit(SortRows(EndpointGroups(F), ByRequestsDesc, tb), TopLimit)
    IN  [i \in 1..Len(top) |->
            [endpoint |-> top[i].endpoint, requests |-> top[i].requests,
             avg_time |-> top[i].avg_time,
             errors_count |-> top[i].errors_count]]

\* the bucket rate with the integer division of SQLite
BucketErrorRate_floor(G) == Rat((ErrorsCount(G) * 100) \div Cardinality(G), 1)

\* count(*) FILTER (error) * 100 / count(id): the / of two integer
\* expressions is a true division, which the SQLite compiler of SQLAlchemy 2
\* writes as x / (y + 0.0)
BucketErrorRate(G) == Rat(ErrorsCount(G) * 100, Cardinality(G))

TimeBuckets(F, period) ==
    {LET G == {r \in F : BucketKey(period, r.created_at) = k}
     IN  [timestamp |-> k, requests |-> Cardinality(G),
          avg_time |-> Some(AvgPt(G)), error_rate |-> Some(BucketErrorRate(G))] :
     k \in {BucketKey(period, r.created_at) : r \in F}}

\* ORDER BY strftime(...) DESC; the keys are distinct, tb plays no part
ByTimestampDesc(a, b, tb) == LexLess(b.timestamp, a.timestamp)

get_time_series(F, period) ==
    Limit(SortRows(TimeBuckets(F, period), ByTimestampDesc, "first"),
          TimeSeriesLimit)

----------------------------------------------------------------------------
(* The response models of schemas.py *)

\* SummaryModel with its round_values validator
SummaryModel(s) ==
    [total_requests |-> s.total_requests,
     unique_ips |-> s.unique_ips,
     avg_response_time |-> RoundIfTruthy(s.avg_response_time),
     min_response_time |-> RoundIfTruthy(s.min_response_time),
     max_response_time |-> RoundIfTruthy(s.max_response_time),
     error_rate |-> RoundIfTruthy(s.error_rate)]

EndpointStatsEntry(e) == [e EXCEPT !.avg_time = RoundIfTruthy(@)]

TimeSeriesEntry(e) ==
    [e EXCEPT !.avg_time = RoundIfTruthy(@), !.error_rate = RoundIfTruthy(@)]

DashboardResponse(d) ==
    [summary |-> SummaryModel(d.summary),
     method_usage |-> d.method_usage,
     endpoint_stats |->
        [i \in 1..Len(d.endpoint_stats) |-> EndpointStatsEntry(d.endpoint_stats[i])],
     status_codes |-> d.status_codes,
     top_ips |-> d.top_ips,
     time_series |->
        [i \in 1..Len(d.time_series) |-> TimeSeriesEntry(d.time_series[i])]]

\* EMPTY_DASHBOARD with the zero latencies of get_res_time_stats
EMPTY_DASHBOARD_zero_latency ==
    [summary |-> [total_requests |-> 0, unique_ips |-> 0,
                  avg_response_time |-> Some(Rat(0, 1)),
                  min_response_time |-> Some(Rat(0, 1)),
                  max_response_time |-> Some(Rat(0, 1)),
                  error_rate |-> Some(Rat(0, 1))],
     method_usage |-> <<>>,
     endpoint_stats |-> <<>>,
     status_codes |-> <<>>,
     top_ips |-> <<>>,
     time_series |-> <<>>]

EMPTY_DASHBOARD ==
    [summary |-> [total_requests |-> 0, unique_ips |-> 0,
                  avg_response_time |-> None, min_response_time |-> None,
                  max_response_time |-> None, error_rate |-> Some(Rat(0, 1))],
     method_usage |-> <<>>,
     endpoint_stats |-> <<>>,
     status_codes |-> <<>>,
     top_ips |-> <<>>,
     time_series |-> <<>>]

----------------------------------------------------------------------------
(* State *)
(*  logs  the log table, in insertion order; logs[i].id = i                *)
(*  agg   the compute_summary call in progress: its arguments, the query   *)
(*        it runs next and the results of the queries it has run           *)
(*  req   the request being served: its route, its X-API-Key header and   *)
(*        its body or query, as the client sent them                       *)
(*  resp  the exchange a handler has just completed, the request and the   *)
(*        response it returns, until the response has gone out             *)

AggIdle ==
    [pc |-> "idle", key |-> 0, period |-> "daily", start |-> 0, end |-> 0,
     total_requests |-> 0, res_time_stats |-> <<>>, errors |-> 0,
     error_rate |-> Rat(0, 1), unique_ips |-> 0, method_usage |-> <<>>,
     endpoint_stats |-> <<>>, status_codes |-> <<>>, top_ips |-> <<>>]

\* no response waiting to go out
NoResponse == [op |-> "none"]

\* the dates the callers send
DateInputs == {3, 5, 9}

\* the periods the callers send; "yearly" is not a period
PeriodInputs == Periods \cup {"yearly"}

\* the responses of the framework to a request that does not reach its
\* handler: the HTTPException of get_api_key, and the validation error of
\* a body or query field
Denied(detail) == [op |-> "denied", status |-> 401, detail |-> detail]
Unprocessable == [op |-> "invalid", status |-> 422]
\* ... and to an exception that no handler catches
ServerError == [op |-> "error", status |-> 500]

----------------------------------------------------------------------------
(* The access gate: auth.get_api_key *)

MAX_API_KEY_LEN == 64

\* the values of the stored keys, by id
KeyValues == <<"key-a", "key-b", "key-c", "key-d">>

\* the user table: alice has the odd ids' keys, bob the even ones
Usernames == <<"alice", "bob">>

Hashed(password) == <<"hash", password>>

Users ==
    [i \in 1..2 |-> [id |-> i, username |-> Usernames[i],
                     hashed_password |-> Hashed("pw")]]

\* the apikey table
APIKeys ==
    [i \in KeyIds |-> [id |-> i, api_key |-> KeyValues[i],
                       user_id |-> 2 - (i % 2)]]

\* the X-API-Key headers the callers send; None: no header
HeaderInputs ==
    {None, Some(""), Some("invalid"), Some("aaa...(65 characters)")}
    \cup {Some(KeyValues[i]) : i \in KeyIds}

\* get_api_key with a lookup that has lost its WHERE clause
get_api_key_any_key(api_key) ==
    IF \/ IsNone(api_key)
       \/ Val(api_key) = ""
       \/ StrLen(Val(api_key)) > MAX_API_KEY_LEN
    THEN [status |-> 401, detail |-> "Missing API Key", id |-> 0]
    ELSE [status |-> 200, detail |-> "", id |-> 1]

\* get_api_key on the apikey table `table`: the first stored key with the
\* value (status 200 and its id), or the HTTPException it raises
get_api_key_of(table, api_key) ==
    IF \/ IsNone(api_key)
       \/ Val(api_key) = ""
       \/ StrLen(Val(api_key)) > MAX_API_KEY_LEN
    THEN [status |-> 401, detail |-> "Missing API Key", id |-> 0]
    ELSE LET found == {i \in 1..Len(table) : table[i].api_key = Val(api_key)}
         IN  IF found = {}
             THEN [status |-> 401, detail |-> "Invalid API Key", id |-> 0]
             ELSE [status |-> 200, detail |-> "",
                   id |-> table[CHOOSE i \in found : \A j \in found : i <= j].id]

\* get_api_key as the routes of routers.py find the table
get_api_key(api_key) == get_api_key_of(APIKeys, api_key)

\* the bearer tokens the callers send; None: no Authorization header,
\* "stale": a token that jwt.decode refuses
TokenInputs == {None, Some("stale"), Some("valid"), Some("valid-b")}

\* the "sub" of the tokens that /token has signed
TokenSub == ("valid" :> "alice") @@ ("valid-b" :> "bob") @@ ("valid-c" :> "carol")

\* get_user: the first row of the user table with the username
get_user(table, username) ==
    LET found == {i \in 1..Len(table) : table[i].username = username}
    IN  IF found = {} THEN None
        ELSE Some(table[CHOOSE i \in found : \A j \in found : i <= j])

\* get_current_user behind oauth2_scheme on the user table `table`: status
\* 200 and the id of the user of the token, or the HTTPException raised
get_current_user_of(table, token) ==
    IF IsNone(token)
    THEN [status |-> 401, detail |-> "Not authenticated", id |-> 0]
    ELSE IF Val(token) \notin DOMAIN TokenSub
    THEN [status |-> 401, detail |-> "Could not validate credentials", id |-> 0]
    ELSE LET user == get_user(table, TokenSub[Val(token)])
         IN  IF IsNone(user)
             THEN [status |-> 401, detail |-> "Could not validate credentials",
                   id |-> 0]
             ELSE [status |-> 200, detail |-> "", id |-> Val(user).id]

\* get_current_user as the routes of routers.py find the table
get_current_user(token) == get_current_user_of(Users, token)

\* the request ends before its handler with the response `response`
Reject(response) ==
    /\ resp' = response
    /\ UNCHANGED <<logs, agg>>

\* no request at the auth router, and the middleware at rest
AuthIdle == [pc |-> "idle"]
MwIdle == [pc |-> "idle"]

Workers == {1, 2}

\* no request being served
NoRequest == [route |-> "none"]

Init ==
    /\ logs \in {<<>>, SeedLogs}
    /\ agg = AggIdle
    /\ req = NoRequest
    /\ resp = NoResponse
    /\ users = Users
    /\ keys = APIKeys
    /\ authreq = [w \in Workers |-> AuthIdle]
    /\ mw = MwIdle

\* rows added by /track so far
Ingested(store) ==
    IF Len(store) >= Len(SeedLogs) THEN Len(store) - Len(SeedLogs)
    ELSE Len(store)

\* create_log without api_key_id
create_log_untagged(k, log) ==
    /\ Ingested(logs) < MaxIngest
    /\ logs' = Append(logs,
                 LogRow(Len(logs) + 1, 0, log.created_at, log.method,
                        log.endpoint, log.ip, log.process_time,
                        log.status_code))
    /\ resp' = IF agg.pc = "idle" THEN [op |-> "track", status |-> 200] ELSE resp
    /\ UNCHANGED agg

\* the handler of POST /track, with a validated LogInput and the key with
\* id k; a call served while another worker runs an aggregation answers on
\* its own connection
create_log(k, log) ==
    /\ Ingested(logs) < MaxIngest
    /\ logs' = Append(logs,
                 LogRow(Len(logs) + 1, k, log.created_at, log.method,
                        log.endpoint, log.ip, log.process_time,
                        log.status_code))
    /\ resp' = IF agg.pc = "idle" THEN [op |-> "track", status |-> 200] ELSE resp
    /\ UNCHANGED agg

\* check_dates with > in place of >=
check_dates_allow_equal(start, end) == start <= end

\* TimeSeriesParam.check_dates
check_dates(start, end) == start < end

DashboardOk(a, body) ==
    [op |-> "dashboard", key |-> a.key, period |-> a.period,
     start |-> a.start, end |-> a.end, status |-> 200, body |-> body]

\* the CTE of the running call, evaluated by the query that runs now
filtered_logs == filter_by_time_key(logs, agg.key, agg.start, agg.end)

\* GET /dashboard up to the first query of compute_summary.  The ValueError
\* of check_dates is raised while the TimeSeriesParam dependency is built,
\* where no handler catches it
show_dashboard(k, period, start, end) ==
    /\ agg.pc = "idle" /\ resp = NoResponse
    /\ UNCHANGED logs
    /\ IF ~check_dates(start, end)
       THEN /\ resp' = [op |-> "dashboard", key |-> k, period |-> period,
                        start |-> start, end |-> end, status |-> 500]
            /\ UNCHANGED agg
       ELSE LET a == [AggIdle EXCEPT !.key = k, !.period = period,
                                     !.start = start, !.end = end]
                total == get_total_req(filter_by_time_key(logs, k, start, end))
            IN  IF total = 0
                THEN /\ resp' = DashboardOk(a, DashboardResponse(EMPTY_DASHBOARD))
                     /\ UNCHANGED agg
                ELSE /\ agg' = [a EXCEPT !.pc = "res_time_stats",
                                         !.total_requests = total]
                     /\ resp' = NoResponse

\* one query of compute_summary: at `at`, store `val` in `field`, go to `next`
QueryStep(at, field, val, next) ==
    /\ agg.pc = at
    /\ agg' = [agg EXCEPT !.pc = next, ![field] = val]
    /\ UNCHANGED <<logs, req, resp, outside>>

QueryResTimeStats ==
    QueryStep("res_time_stats", "res_time_stats",
              get_res_time_stats(filtered_logs), "errors")

QueryErrors ==
    QueryStep("errors", "errors", ErrorsCount(filtered_logs), "error_rate")

QueryErrorRate ==
    QueryStep("error_rate", "error_rate",
              get_errors_rate(agg.errors, get_total_req(filtered_logs)),
              "unique_ips")

QueryUniqueIps ==
    QueryStep("unique_ips", "unique_ips", get_unique_ips(filtered_logs),
              "method_usage")

QueryMethodUsage ==
    QueryStep("method_usage", "method_usage", get_method_usage(filtered_logs),
              "endpoint_stats")

QueryEndpointStats ==
    \E tb \in TieBreaks :
        QueryStep("endpoint_stats", "endpoint_stats",
                  get_endpoint_stats(filtered_logs, tb), "status_codes")

QueryStatusCodes ==
    QueryStep("status_codes", "status_codes", get_status_codes(filtered_logs),
              "top_ips")

QueryTopIps ==
    \E tb \in TieBreaks :
        QueryStep("top_ips", "top_ips", get_top_ips(filtered_logs, tb),
                  "time_series")

\* the dict compute_summary builds from the query results
SummaryResult(a, time_series) ==
    [summary |-> [total_requests |-> a.total_requests,
                  unique_ips |-> a.unique_ips,
                  avg_response_time |-> a.res_time_stats.avg,
                  min_response_time |-> a.res_time_stats.min,
                  max_response_time |-> a.res_time_stats.max,
                  error_rate |-> Some(a.error_rate)],
     method_usage |-> a.method_usage,
     endpoint_stats |-> a.endpoint_stats,
     status_codes |-> a.status_codes,
     top_ips |-> a.top_ips,
     time_series |-> time_series]

\* the last query; compute_summary returns and the response is sent
QueryTimeSeries ==
    /\ agg.pc = "time_series"
    /\ resp' = DashboardOk(agg, DashboardResponse(
                   SummaryResult(agg, get_time_series(filtered_logs, agg.period))))
    /\ agg' = AggIdle
    /\ UNCHANGED <<logs, req, outside>>

----------------------------------------------------------------------------
(* The filter builder and GET /raw_logs *)

\* date.today() when schemas.py was imported: the default of end_date
Today == 8

\* FilterParams with its defaults
FilterParams ==
    [limit |-> 100, offset |-> 0, order_by |-> "created_at",
     start_date |-> None, end_date |-> Today, method |-> None,
     status_code |-> None, endpoint |-> None, ip |-> None,
     process_time_min |-> None, process_time_max |-> None]

\* the filters the callers send (process_time bounds in thousandths)
FilterInputs ==
    { FilterParams,
      [FilterParams EXCEPT !.end_date = 9, !.process_time_max = Some(0)],
      [FilterParams EXCEPT !.end_date = 9, !.process_time_min = Some(125),
                           !.process_time_max = Some(300),
                           !.order_by = "process_time"],
      [FilterParams EXCEPT !.start_date = Some(5), !.end_date = 5,
                           !.method = Some("GET"), !.order_by = "endpoint"],
      [FilterParams EXCEPT !.end_date = 9, !.endpoint = Some("/us"),
                           !.ip = Some("192.168.0.1"), !.status_code = Some(200)],
      [FilterParams EXCEPT !.end_date = 9, !.status_code = Some(0),
                           !.ip = Some(""), !.endpoint = Some("/U_E")],
      [FilterParams EXCEPT !.end_date = 9, !.limit = 2, !.offset = 1,
                           !.order_by = "ip"] }

\* Python truthiness of an optional int or float given as a plain number
TruthyNum(o) == ~IsNone(o) /\ Val(o) # 0
\* ... and of an optional string
TruthyStr(o) == ~IsNone(o) /\ Val(o) # ""

Cond(col, op, val) == [col |-> col, op |-> op, val |-> val]

IfCond(test, cond) == IF test THEN <<cond>> ELSE <<>>

\* the list of conditions; a date is always truthy
build_log_filters(param, api_key_id) ==
    <<Cond("api_key_id", "eq", api_key_id)>>
    \o IfCond(~IsNone(param.start_date),
              Cond("created_at", "ge", DayStart(Val(param.start_date))))
    \o <<Cond("created_at", "le", DayEnd(param.end_date))>>
    \o IfCond(TruthyStr(param.method), Cond("method", "eq", Val(param.method)))
    \o IfCond(TruthyNum(param.status_code),
              Cond("status_code", "eq", Val(param.status_code)))
    \o IfCond(TruthyStr(param.endpoint),
              Cond("endpoint", "contains", Val(param.endpoint)))
    \o IfCond(TruthyStr(param.ip), Cond("ip", "eq", Val(param.ip)))
    \o IfCond(TruthyNum(param.process_time_min),
              Cond("process_time", "ge", Val(param.process_time_min)))
    \o IfCond(TruthyNum(param.process_time_max),
              Cond("process_time", "le", Val(param.process_time_max)))

\* the row r satisfies the SQL condition c; a NULL ip equals nothing
Holds(c, r) ==
    CASE c.col = "created_at" /\ c.op = "ge" -> DtLeq(c.val, r.created_at)
      [] c.col = "created_at" /\ c.op = "le" -> DtLeq(r.created_at, c.val)
      [] c.col = "process_time" /\ c.op = "ge" -> r.process_time >= c.val
      [] c.col = "process_time" /\ c.op = "le" -> r.process_time <= c.val
      [] c.col = "endpoint" /\ c.op = "contains" -> SqlContains(r.endpoint, c.val)
      [] c.col = "ip" -> r.ip = Some(c.val)
      [] OTHER -> r[c.col] = c.val

\* WHERE conditions[1] AND conditions[2] AND ...
Where(store, conditions) ==
    {r \in Rows(store) : \A i \in 1..Len(conditions) : Holds(conditions[i], r)}

\* a sorts strictly before b on column col, ascending; NULL sorts first
ColLess(col, a, b) ==
    CASE col = "created_at" -> ~DtLeq(b.created_at, a.created_at)
      [] col = "ip" -> /\ ~IsNone(b.ip)
                       /\ IsNone(a.ip) \/ StrLess(Val(a.ip), Val(b.ip))
      [] col \in {"method", "endpoint"} -> StrLess(a[col], b[col])
      [] OTHER -> a[col] < b[col]

\* ORDER BY col; rows equal on col come in table order, or in its reverse
ByColumn(col, a, b, tb) ==
    \/ ColLess(col, a, b)
    \/ /\ ~ColLess(col, b, a)
       /\ IF tb = "first" THEN a.id < b.id ELSE a.id > b.id

\* OFFSET offset LIMIT limit
Page(seq, offset, limit) ==
    SubSeq(seq, offset + 1,
           IF Len(seq) < offset + limit THEN Len(seq) ELSE offset + limit)

\* schemas.LogOutput with its round_process_time validator
LogOutput(r) ==
    [id |-> r.id, created_at |-> r.created_at, method |-> r.method,
     endpoint |-> r.endpoint, ip |-> r.ip,
     process_time |-> Round2(Rat(r.process_time, 1000)),
     status_code |-> r.status_code]

\* GET /raw_logs with the key with id k
show_raw_logs(k, filter_query, tb) ==
    /\ agg.pc = "idle" /\ resp = NoResponse
    /\ LET conditions == build_log_filters(filter_query, k)
           sorted == SortRows(Where(logs, conditions),
                              LAMBDA a, b, t : ByColumn(filter_query.order_by, a, b, t),
                              tb)
           page == Page(sorted, filter_query.offset, filter_query.limit)
       IN  resp' = [op |-> "raw_logs", key |-> k, filter |-> filter_query,
                    status |-> 200,
                    body |-> [i \in 1..Len(page) |-> LogOutput(page[i])]]
    /\ UNCHANGED <<logs, agg>>

\* the field constraints of FilterParams, on the query as the caller sends
\* it; end_date is None when the query has no end_date
OrderByFields ==
    {"created_at", "method", "endpoint", "ip", "process_time", "status_code"}

FilterFields(query) ==
    /\ query.limit > 0 /\ query.limit <= 100
    /\ query.offset >= 0
    /\ query.order_by \in OrderByFields
    /\ IsNone(query.method) \/ Val(query.method) \in AllowedMethods

\* FilterParams(**query): an absent end_date takes the default
FilterParamsOf(query) ==
    [query EXCEPT !.end_date = IF IsNone(@) THEN Today ELSE Val(@)]

\* FilterParams.check_dates passes; a date is always truthy
FilterParams_check_dates(values) ==
    IsNone(values.start_date) \/ Val(values.start_date) <= values.end_date

\* FilterParams.check_time passes; a bound of 0.0 is falsy
FilterParams_check_time(values) ==
    \/ ~TruthyNum(values.process_time_min)
    \/ ~TruthyNum(values.process_time_max)
    \/ Val(values.process_time_min) < Val(values.process_time_max)

\* the queries the callers send: no filter at all, the filters above with
\* their end_date, and queries that break one rule of FilterParams each
NoFilters == [FilterParams EXCEPT !.end_date = None]

FilterQueries ==
    {NoFilters}
    \cup {[f EXCEPT !.end_date = Some(@)] : f \in FilterInputs \ {FilterParams}}
    \cup { [NoFilters EXCEPT !.end_date = Some(9), !.process_time_min = Some(500),
                             !.process_time_max = Some(0)],
           [NoFilters EXCEPT !.end_date = Some(9), !.process_time_min = Some(300),
                             !.process_time_max = Some(125)],
           [NoFilters EXCEPT !.end_date = Some(9), !.process_time_min = Some(125),
                             !.process_time_max = Some(125)],
           [NoFilters EXCEPT !.start_date = Some(9)],
           [NoFilters EXCEPT !.start_date = Some(5), !.end_date = Some(3)],
           [NoFilters EXCEPT !.limit = 0],
           [NoFilters EXCEPT !.limit = 101],
           [NoFilters EXCEPT !.offset = 0 - 1],
           [NoFilters EXCEPT !.order_by = "id"],
           [NoFilters EXCEPT !.method = Some("get")] }

\* a request is taken up when no other is being served
Idle == agg.pc = "idle" /\ resp = NoResponse

\* GET /raw_logs: the FilterParams dependency, then get_api_key, then
\* get_current_user, then the errors of the query fields, then the handler
RawLogsRequest(header, token, query, tb) ==
    LET auth == get_api_key(header)
        user == get_current_user(token)
        values == FilterParamsOf(query)
    IN  /\ Idle
        /\ req' = [route |-> "raw_logs", header |-> header, token |-> token,
                   filter |-> query]
        /\ IF /\ FilterFields(query)
              /\ ~(FilterParams_check_dates(values) /\ FilterParams_check_time(values))
           THEN Reject(ServerError)
           ELSE IF auth.status # 200 THEN Reject(Denied(auth.detail))
           ELSE IF user.status # 200 THEN Reject(Denied(user.detail))
           ELSE IF ~FilterFields(query) THEN Reject(Unprocessable)
           ELSE show_raw_logs(auth.id, values, tb)

GoodHeaders == {h \in HeaderInputs : get_api_key(h).status = 200}

\* the headers and tokens of the requests that a gate refuses
RefusedInputs ==
    ((HeaderInputs \ GoodHeaders) \X {Some("valid")})
    \cup ({None, Some(KeyValues[1])} \X {None, Some("stale")})

\* every query with every stored key and a valid token, and three queries
\* with the other headers and tokens
RawLogsRequests ==
    (GoodHeaders \X {Some("valid")} \X FilterQueries)
    \cup {<<g[1], g[2], query>> :
            g \in RefusedInputs,
            query \in {NoFilters, [NoFilters EXCEPT !.limit = 0],
                       [NoFilters EXCEPT !.start_date = Some(5),
                                         !.end_date = Some(3)]}}

RawLogs ==
    /\ \E r \in RawLogsRequests, tb \in TieBreaks :
           RawLogsRequest(r[1], r[2], r[3], tb)
    /\ UNCHANGED outside

\* LogInputValidate on the bodies the clients send
Validated == [body \in ValidPayloads \cup InvalidPayloads |-> LogInputValidate(body)]

\* POST /track: get_api_key, then the validation of the body, then the
\* handler.  A call served while another worker runs an aggregation answers
\* on its own connection; when it is rejected it changes nothing at all,
\* and is a step that leaves the state as it is
TrackRequest(header, body) ==
    LET auth == get_api_key(header)
        input == Validated[body]
        alone == agg.pc = "idle"
    IN  /\ req' = IF alone
                  THEN [route |-> "track", header |-> header, body |-> body]
                  ELSE req
        /\ IF auth.status # 200 THEN alone /\ Reject(Denied(auth.detail))
           ELSE IF ~input.ok THEN alone /\ Reject(Unprocessable)
           ELSE create_log(auth.id, Val(input.log))

\* the /track requests the clients send
TrackRequests ==
    ({Some("key-a")} \X (ValidPayloads \cup InvalidPayloads))
    \cup ({Some("key-b")} \X {Orders})
    \cup ((HeaderInputs \ GoodHeaders)
            \X {Users0, [Users0 EXCEPT !.method = JStr("FETCH")]})

Track ==
    /\ \E r \in TrackRequests : TrackRequest(r[1], r[2])
    /\ UNCHANGED outside

TimeSeriesQuery(period, start, end) ==
    [period |-> period, start |-> start, end |-> end]

\* GET /dashboard: the TimeSeriesParam dependency, then get_api_key, then
\* the errors of the query fields, then the handler
DashboardRequest(header, token, query) ==
    LET auth == get_api_key(header)
        user == get_current_user(token)
    IN  /\ Idle
        /\ req' = [route |-> "dashboard", header |-> header, token |-> token,
                   query |-> query]
        /\ IF query.period \in Periods /\ ~check_dates(query.start, query.end)
           THEN show_dashboard(auth.id, query.period, query.start, query.end)
           ELSE IF auth.status # 200 THEN Reject(Denied(auth.detail))
           ELSE IF user.status # 200 THEN Reject(Denied(user.detail))
           ELSE IF query.period \notin Periods THEN Reject(Unprocessable)
           ELSE show_dashboard(auth.id, query.period, query.start, query.end)

\* every window and period with every stored key, and three queries with
\* the other headers and with a period that is none
DashboardRequests ==
    (GoodHeaders \X {Some("valid")}
        \X {TimeSeriesQuery(period, start, end) :
               period \in Periods, start \in DateInputs, end \in DateInputs})
    \cup {<<g[1], g[2], TimeSeriesQuery(period, w[1], w[2])>> :
            g \in RefusedInputs \cup (GoodHeaders \X {Some("valid")})
                    \cup {<<Some(KeyValues[2]), Some("valid-b")>>},
            period \in PeriodInputs \ (Periods \ {"daily"}),
            w \in {<<3, 5>>, <<5, 3>>}}

Dashboard ==
    /\ \E r \in DashboardRequests : DashboardRequest(r[1], r[2], r[3])
    /\ UNCHANGED outside

\* compute_summary when every one of its queries reads the same table
\* `store`; tbe and tbi order the endpoint and ip groups of equal counts
compute_summary(store, k, period, start, end, tbe, tbi) ==
    LET F == filter_by_time_key(store, k, start, end)
        total == get_total_req(F)
    IN  IF total = 0 THEN DashboardResponse(EMPTY_DASHBOARD)
        ELSE DashboardResponse(SummaryResult(
                 [total_requests |-> total,
                  res_time_stats |-> get_res_time_stats(F),
                  error_rate |-> get_errors_rate(ErrorsCount(F), get_total_req(F)),
                  unique_ips |-> get_unique_ips(F),
                  method_usage |-> get_method_usage(F),
                  endpoint_stats |-> get_endpoint_stats(F, tbe),
                  status_codes |-> get_status_codes(F),
                  top_ips |-> get_top_ips(F, tbi)],
                 get_time_series(F, period)))

\* services.get_report_data: the summary and the metadata of the report
\* (generated_at, the clock reading, is left out)
get_report_data(store, k, period, start, end, tbe, tbi) ==
    [report_metadata |->
        [report_name |-> "API Traffic Analysis",
         period |-> [start |-> start, end |-> end]],
     report |-> compute_summary(store, k, period, start, end, tbe, tbi)]

FormatInputs == {"json", "pdf", "csv"}

\* the handler of GET /report; rendered: build_report_json or
\* build_report_pdf returns, otherwise it raises
download_report(k, format, period, start, end, tbe, tbi, rendered) ==
    /\ resp' = IF rendered
               THEN [op |-> "report", key |-> k, format |-> format,
                     status |-> 200,
                     body |-> get_report_data(logs, k, period, start, end, tbe, tbi)]
               ELSE ServerError
    /\ UNCHANGED <<logs, agg>>

\* GET /report: the TimeSeriesParam dependency, then get_api_key, then
\* get_current_user, then the errors of the query fields, then the handler
ReportRequest(header, token, format, query, tbe, tbi, rendered) ==
    LET auth == get_api_key(header)
        user == get_current_user(token)
    IN  /\ Idle
        /\ req' = [route |-> "report", header |-> header, token |-> token,
                   format |-> format, query |-> query]
        /\ IF query.period \in Periods /\ ~check_dates(query.start, query.end)
           THEN Reject(ServerError)
           ELSE IF auth.status # 200 THEN Reject(Denied(auth.detail))
           ELSE IF user.status # 200 THEN Reject(Denied(user.detail))
           ELSE IF query.period \notin Periods \/ format \notin {"json", "pdf"}
           THEN Reject(Unprocessable)
           ELSE download_report(auth.id, format, query.period, query.start,
                                query.end, tbe, tbi, rendered)

ReportRequests ==
    (GoodHeaders \X {Some("valid")} \X FormatInputs
        \X { TimeSeriesQuery("daily", 3, 9), TimeSeriesQuery("weekly", 3, 5),
             TimeSeriesQuery("daily", 5, 3), TimeSeriesQuery("monthly", 5, 5),
             TimeSeriesQuery("yearly", 3, 5) })
    \cup {<<g[1], g[2], "pdf", query>> :
            g \in RefusedInputs,
            query \in {TimeSeriesQuery("daily", 3, 9),
                       TimeSeriesQuery("daily", 5, 3)}}

Report ==
    /\ \E r \in ReportRequests, tbe \in TieBreaks, tbi \in TieBreaks,
          rendered \in BOOLEAN :
           ReportRequest(r[1], r[2], r[3], r[4], tbe, tbi, rendered)
    /\ UNCHANGED outside

\* the response goes out to the caller
SendResponse ==
    /\ resp # NoResponse
    /\ resp' = NoResponse
    /\ req' = NoRequest
    /\ UNCHANGED <<logs, agg, outside>>

\* requests are served one at a time
TrackAlone == agg.pc = "idle" /\ resp = NoResponse /\ Track

Next ==
    \/ TrackAlone
    \/ Dashboard
    \/ RawLogs
    \/ Report
    \/ QueryResTimeStats
    \/ QueryErrors
    \/ QueryErrorRate
    \/ QueryUniqueIps
    \/ QueryMethodUsage
    \/ QueryEndpointStats
    \/ QueryStatusCodes
    \/ QueryTopIps
    \/ QueryTimeSeries
    \/ SendResponse

Spec == Init /\ [][Next]_vars

\* requests are served by parallel workers: /track commits between the
\* queries of a running compute_summary
NextConc ==
    \/ Track
    \/ Dashboard
    \/ RawLogs
    \/ Report
    \/ QueryResTimeStats
    \/ QueryErrors
    \/ QueryErrorRate
    \/ QueryUniqueIps
    \/ QueryMethodUsage
    \/ QueryEndpointStats
    \/ QueryStatusCodes
    \/ QueryTopIps
    \/ QueryTimeSeries
    \/ SendResponse

SpecConc == Init /\ [][NextConc]_vars

----------------------------------------------------------------------------
(* The auth router: /register and /generate_key served by parallel        *)
(* workers, and get_api_key on the table they leave                        *)

MaxUsers == 2       \* rows of the user table
MaxKeys == 2        \* rows of the apikey table

\* the usernames of the registration forms
RegisterNames == {"alice", "carol"}

\* generate_api_key: uuid4 returns a value that is not stored yet; the
\* values are opaque, the first unused one stands for it
generate_api_key(table) ==
    KeyValues[CHOOSE i \in 1..Len(KeyValues) :
                 /\ \A j \in 1..Len(table) : table[j].api_key # KeyValues[i]
                 /\ \A h \in 1..(i - 1) :
                        \E j \in 1..Len(table) : table[j].api_key = KeyValues[h]]

\* the tokens /token has signed: those of the stored users
SignedTokens(table) ==
    {Some(t) : t \in {x \in DOMAIN TokenSub : ~IsNone(get_user(table, TokenSub[x]))}}

Answer(w, response) == authreq' = [authreq EXCEPT ![w] = response]

\* register_user up to the answer of get_user: 400 when the username is
\* stored, otherwise the worker goes on to insert
RegisterBegin(w, username, password) ==
    /\ authreq[w].pc = "idle"
    /\ Len(users) < MaxUsers
    /\ IF ~IsNone(get_user(users, username))
       THEN Answer(w, [pc |-> "done", route |-> "register",
                       username |-> username, status |-> 400,
                       detail |-> "Username already exists"])
       ELSE Answer(w, [pc |-> "commit", route |-> "register",
                       username |-> username,
                       hashed_password |-> Hashed(password)])
    /\ UNCHANGED <<users, keys>>

\* register_user from session.add(user) on.  When another worker has
\* stored the username since get_user answered, the commit stores a second
\* row, or raises IntegrityError when the user table declares the username
\* unique
RegisterCommit(w, unique) ==
    /\ authreq[w].pc = "commit"
    /\ LET row == [id |-> Len(users) + 1, username |-> authreq[w].username,
                   hashed_password |-> authreq[w].hashed_password]
           taken == ~IsNone(get_user(users, authreq[w].username))
       IN  IF taken /\ unique
           THEN /\ Answer(w, [pc |-> "done", route |-> "register",
                              username |-> authreq[w].username,
                              status |-> 500, detail |-> "IntegrityError"])
                /\ UNCHANGED users
           ELSE /\ users' = Append(users, row)
                /\ Answer(w, [pc |-> "done", route |-> "register",
                              username |-> row.username, status |-> 200,
                              id |-> row.id])
    /\ UNCHANGED keys

\* generate_key_route that stores the key without its user
generate_key_route_unlinked(w, token) ==
    LET user == get_current_user_of(users, token)
        key == generate_api_key(keys)
    IN  /\ authreq[w].pc = "idle"
        /\ Len(keys) < MaxKeys
        /\ IF user.status # 200
           THEN /\ Answer(w, [pc |-> "done", route |-> "generate_key",
                              token |-> token, status |-> 401,
                              detail |-> user.detail])
                /\ UNCHANGED keys
           ELSE /\ keys' = Append(keys, [id |-> Len(keys) + 1, api_key |-> key,
                                         user_id |-> 0])
                /\ Answer(w, [pc |-> "done", route |-> "generate_key",
                              token |-> token, status |-> 200, body |-> key,
                              user_id |-> user.id])
        /\ UNCHANGED users

\* generate_key_route behind get_current_user
generate_key_route(w, token) ==
    LET user == get_current_user_of(users, token)
        key == generate_api_key(keys)
    IN  /\ authreq[w].pc = "idle"
        /\ Len(keys) < MaxKeys
        /\ IF user.status # 200
           THEN /\ Answer(w, [pc |-> "done", route |-> "generate_key",
                              token |-> token, status |-> 401,
                              detail |-> user.detail])
                /\ UNCHANGED keys
           ELSE /\ keys' = Append(keys, [id |-> Len(keys) + 1, api_key |-> key,
                                         user_id |-> user.id])
                /\ Answer(w, [pc |-> "done", route |-> "generate_key",
                              token |-> token, status |-> 200, body |-> key,
                              user_id |-> user.id])
        /\ UNCHANGED users

\* a request that presents the header to get_api_key
ResolveKey(w, header) ==
    /\ authreq[w].pc = "idle"
    /\ Answer(w, [pc |-> "done", route |-> "resolve", header |-> header,
                  status |-> get_api_key_of(keys, header).status,
                  id |-> get_api_key_of(keys, header).id])
    /\ UNCHANGED <<users, keys>>

\* the routes of routers.py are not part of this specification
core == <<logs, agg, req, resp, mw>>

Register ==
    /\ \E w \in Workers, username \in RegisterNames :
           RegisterBegin(w, username, "pw")
    /\ UNCHANGED core

Commit ==
    /\ \E w \in Workers, unique \in BOOLEAN : RegisterCommit(w, unique)
    /\ UNCHANGED core

\* /generate_key and the requests that present a key are one transaction
\* each: one worker serves them, both serve /register
GenerateKey ==
    /\ \E token \in {None, Some("stale")} \cup SignedTokens(users) :
           generate_key_route(1, token)
    /\ UNCHANGED core

Resolve ==
    /\ \E header \in {Some("invalid")} \cup {Some(KeyValues[i]) : i \in 1..3} :
           ResolveKey(1, header)
    /\ UNCHANGED core

\* the response goes out to the caller
AuthRespond ==
    /\ \E w \in Workers :
           /\ authreq[w].pc = "done"
           /\ Answer(w, AuthIdle)
    /\ UNCHANGED <<users, keys, core>>

InitAuth ==
    /\ logs = <<>>
    /\ agg = AggIdle
    /\ req = NoRequest
    /\ resp = NoResponse
    /\ \/ users = <<>> /\ keys = <<>>
       \/ users = SubSeq(Users, 1, 1) /\ keys = SubSeq(APIKeys, 1, 1)
    /\ authreq = [w \in Workers |-> AuthIdle]
    /\ mw = MwIdle

NextAuth ==
    \/ Register
    \/ Commit
    \/ GenerateKey
    \/ Resolve
    \/ AuthRespond

SpecAuth == InitAuth /\ [][NextAuth]_vars

----------------------------------------------------------------------------
(* The tracking middleware of an instrumented application                  *)
(* (src/client_middleware/middleware.py)                                   *)

\* create_tracking_middleware(api_key): the middleware before a request
create_tracking_middleware(api_key) ==
    [pc |-> "idle", api_key |-> api_key, calls |-> <<>>, posts |-> <<>>]

\* the requests the application receives; client None: no client info
AppRequests ==
    [method : {"GET", "POST"},
     url : {[path |-> "/ping", query |-> ""], [path |-> "/items", query |-> "?page=2"]},
     client : {None, Some([host |-> "127.0.0.1"])}]

\* the responses of the downstream handler
AppResponses == [status_code : {200, 404, 500}, body : {"pong"}]

\* the differences of two readings of perf_counter, in seconds
Elapsed == {Rat(0, 1), Rat(1, 8), Rat(3, 2)}

\* what client.post does: it returns the response of the analytics service,
\* whatever its status, or raises
Deliveries ==
    {[raises |-> FALSE, status |-> 200], [raises |-> FALSE, status |-> 401],
     [raises |-> FALSE, status |-> 422], [raises |-> FALSE, status |-> 500],
     [raises |-> TRUE, error |-> "ConnectError"],
     [raises |-> TRUE, error |-> "ReadTimeout"]}

\* the log with the whole URL as endpoint
log_of_request_whole_url(request, response, now, elapsed) ==
    [created_at |-> now,
     method |-> request.method,
     endpoint |-> <<request.url.path, request.url.query>>,
     ip |-> IF request.client # None THEN Some(Val(request.client).host) ELSE None,
     process_time |-> Rat(elapsed.n * 1000, elapsed.d),
     status_code |-> response.status_code]

\* the log dict of tracking_middleware
log_of_request(request, response, now, elapsed) ==
    [created_at |-> now,
     method |-> request.method,
     endpoint |-> <<request.url.path>>,
     ip |-> IF request.client # None THEN Some(Val(request.client).host) ELSE None,
     process_time |-> Rat(elapsed.n * 1000, elapsed.d),
     status_code |-> response.status_code]

\* send_log that lets the exception of the delivery through
send_log_raising(log, api_key, delivery) ==
    mw' = [mw EXCEPT !.pc = IF delivery.raises THEN "raised" ELSE "sent",
                     !.posts = Append(@, [json |-> log, key |-> api_key,
                                          delivery |-> delivery])]

\* send_log: one POST to /track; an exception is swallowed
send_log(log, api_key, delivery) ==
    mw' = [mw EXCEPT !.pc = "sent",
                     !.posts = Append(@, [json |-> log, key |-> api_key,
                                          delivery |-> delivery])]

\* the server, the auth router and their tables are not part of the
\* instrumented application
server == <<logs, agg, req, resp, users, keys, authreq>>

\* tracking_middleware up to call_next
MwReceive ==
    /\ mw.pc = "idle"
    /\ \E request \in AppRequests :
           mw' = [pc |-> "handling", api_key |-> mw.api_key,
                  request |-> request, calls |-> <<>>, posts |-> <<>>]
    /\ UNCHANGED server

\* call_next raises: the exception leaves the middleware
MwHandlerRaises ==
    /\ mw.pc = "handling"
    /\ mw' = [mw EXCEPT !.pc = "raised"]
    /\ UNCHANGED server

\* call_next returns: the log is built and send_log is called
MwHandlerReturns ==
    /\ mw.pc = "handling"
    /\ \E response \in AppResponses, now \in {Dt(5, 0), Dt(9, 600)},
          elapsed \in Elapsed :
           mw' = [pc |-> "sending", api_key |-> mw.api_key,
                  request |-> mw.request, response |-> response,
                  calls |-> Append(mw.calls,
                                   [log |-> log_of_request(mw.request, response,
                                                           now, elapsed),
                                    api_key |-> mw.api_key]),
                  posts |-> mw.posts]
    /\ UNCHANGED server

\* the awaited send_log
MwSendLog ==
    /\ mw.pc = "sending"
    /\ \E delivery \in Deliveries :
           send_log(mw.calls[Len(mw.calls)].log, mw.calls[Len(mw.calls)].api_key,
                    delivery)
    /\ UNCHANGED server

\* tracking_middleware returns the response of the handler
MwReturn ==
    /\ mw.pc = "sent"
    /\ mw' = [pc |-> "returned", api_key |-> mw.api_key,
              request |-> mw.request, response |-> mw.response,
              calls |-> mw.calls, posts |-> mw.posts,
              returned |-> mw.response]
    /\ UNCHANGED server

\* the next request
MwNext ==
    /\ mw.pc \in {"returned", "raised"}
    /\ mw' = create_tracking_middleware(mw.api_key)
    /\ UNCHANGED server

InitMw ==
    /\ logs = <<>>
    /\ agg = AggIdle
    /\ req = NoRequest
    /\ resp = NoResponse
    /\ users = Users
    /\ keys = APIKeys
    /\ authreq = [w \in Workers |-> AuthIdle]
    /\ mw \in {create_tracking_middleware(k) : k \in {"key-a", "invalid"}}

NextMw ==
    \/ MwReceive
    \/ MwHandlerRaises
    \/ MwHandlerReturns
    \/ MwSendLog
    \/ MwReturn
    \/ MwNext

SpecMw == InitMw /\ [][NextMw]_vars

----------------------------------------------------------------------------
(* Vocabulary of the properties *)

\* the rows of the table that belong to the key with id k
OwnedBy(store, k) == SelectSeq(store, LAMBDA r : r.api_key_id = k)

\* a dashboard response with a body, and a raw-logs response
IsDashboard == resp.op = "dashboard" /\ resp.status = 200
IsRawLogs == resp.op = "raw_logs" /\ resp.status = 200

\* the rows of owner k created from the first minute of day start to the
\* last minute of day end
InWindow(r, k, start, end) ==
    /\ r.api_key_id = k
    /\ r.created_at.day >= start
    /\ r.created_at.day <= end

\* the filtered subset of the answered dashboard request
Subset == {r \in Rows(logs) : InWindow(r, resp.key, resp.start, resp.end)}

HasRows == IsDashboard /\ resp.body.summary.total_requests > 0

SumValues(f) == SumOver(f, DOMAIN f)

NonIncreasing(seq) ==
    \A i \in 1..Len(seq) - 1 : seq[i].requests >= seq[i + 1].requests

----------------------------------------------------------------------------
(* Properties of the aggregation engine, for requests served one at a time *)

\* C1: cross-owner isolation.  A dashboard answered for key B is the
\* summary of B's rows alone, and a raw-logs page answered for B is the
\* page of B's rows alone and holds only rows of B: rows ingested under
\* another key neither appear in nor change B's results.
CrossOwnerIsolation ==
    /\ IsDashboard =>
          \E tbe \in TieBreaks, tbi \in TieBreaks :
              resp.body = compute_summary(OwnedBy(logs, resp.key), resp.key,
                              resp.period, resp.start, resp.end, tbe, tbi)
    /\ IsRawLogs =>
          /\ \A i \in 1..Len(resp.body) :
                 logs[resp.body[i].id].api_key_id = resp.key
          /\ \E tb \in TieBreaks :
                 LET rows == Where(OwnedBy(logs, resp.key),
                                   build_log_filters(resp.filter, resp.key))
                     page == Page(SortRows(rows,
                                     LAMBDA a, b, t :
                                         ByColumn(resp.filter.order_by, a, b, t), tb),
                                  resp.filter.offset, resp.filter.limit)
                 IN  resp.body = [i \in 1..Len(page) |-> LogOutput(page[i])]

\* C1 witness: a non-empty dashboard answer for one key while another key
\* has a row inside the same window
CrossOwnerIsolationWitness ==
    /\ HasRows
    /\ \E r \in Rows(logs) :
           /\ r.api_key_id # resp.key
           /\ InWindow(r, r.api_key_id, resp.start, resp.end)

EmptyResult ==
    (resp.op = "dashboard" /\ resp.start < resp.end /\ Subset = {}) =>
        /\ resp.status = 200
        /\ resp.body.summary =
              [total_requests |-> 0, unique_ips |-> 0,
               avg_response_time |-> None, min_response_time |-> None,
               max_response_time |-> None, error_rate |-> Some(Rat(0, 1))]
        /\ DOMAIN resp.body.method_usage = {}
        /\ DOMAIN resp.body.status_codes = {}
        /\ Len(resp.body.endpoint_stats) = 0
        /\ Len(resp.body.top_ips) = 0
        /\ Len(resp.body.time_series) = 0

\* C4 witness: an empty answer while the owner has rows outside the window
\* and another owner has rows inside it
EmptyResultWitness ==
    /\ IsDashboard
    /\ Subset = {}
    /\ \E r \in Rows(logs) : r.api_key_id = resp.key
    /\ \E r \in Rows(logs) : InWindow(r, r.api_key_id, resp.start, resp.end)

LatencyStatsOfSubset ==
    HasRows =>
        LET pts == {r.process_time : r \in Subset}
            lo == CHOOSE x \in pts : \A y \in pts : x <= y
            hi == CHOOSE x \in pts : \A y \in pts : x >= y
            sum == SumOver([r \in Subset |-> r.process_time], Subset)
        IN  /\ resp.body.summary.min_response_time = Some(Round2(Rat(lo, 1000)))
            /\ resp.body.summary.max_response_time = Some(Round2(Rat(hi, 1000)))
            /\ resp.body.summary.avg_response_time =
                   Some(Round2(Rat(sum, 1000 * Cardinality(Subset))))

\* the number of rows of the subset with ip (or endpoint) x
CountIp(x) == Cardinality({r \in Subset : r.ip = x})
CountEndpoint(x) == Cardinality({r \in Subset : r.endpoint = x})

\* the entries of a top list: at most 5, one per listed value, by
\* non-increasing count, no value left out counting more than a listed one
IsTopList(top, field, values, Count(_)) ==
    /\ Len(top) <= 5
    /\ Len(top) = 5 \/ Len(top) = Cardinality(values)
    /\ NonIncreasing(top)
    /\ \A i \in 1..Len(top) :
           /\ top[i][field] \in values
           /\ top[i].requests = Count(top[i][field])
           /\ \A j \in 1..Len(top) : top[i][field] = top[j][field] => i = j
    /\ \A x \in values :
           (\A i \in 1..Len(top) : top[i][field] # x) =>
               \A i \in 1..Len(top) : Count(x) <= top[i].requests

\* C7: top_ips and endpoint_stats are top-5 lists by request count over the
\* subset, and each endpoint entry's errors_count is the number of its rows
\* with status_code in [400, 599].
TopListsOfSubset ==
    HasRows =>
        /\ IsTopList(resp.body.top_ips, "ip", {r.ip : r \in Subset}, CountIp)
        /\ IsTopList(resp.body.endpoint_stats, "endpoint",
                     {r.endpoint : r \in Subset}, CountEndpoint)
        /\ \A i \in 1..Len(resp.body.endpoint_stats) :
               LET e == resp.body.endpoint_stats[i]
               IN  /\ e.errors_count =
                          Cardinality({r \in Subset : /\ r.endpoint = e.endpoint
                                                      /\ r.status_code >= 400
                                                      /\ r.status_code <= 599})
                   /\ e.errors_count <= e.requests

\* C7 witness: more than 5 ips and more than 5 endpoints, with different
\* counts and with errors, so that values are left out
TopListsOfSubsetWitness ==
    /\ HasRows
    /\ Cardinality({r.ip : r \in Subset}) > 5
    /\ Cardinality({r.endpoint : r \in Subset}) > 5
    /\ resp.body.top_ips[1].requests > resp.body.top_ips[5].requests
    /\ \E i \in 1..5 : resp.body.endpoint_stats[i].errors_count > 0

\* the bucket keys of the subset under the period of the request
SubsetKeys == {BucketKey(resp.period, r.created_at) : r \in Subset}

\* C8: time_series holds at most 5 buckets, the most recent non-empty
\* ones, most recent first.
TimeSeriesCappedAtFive ==
    HasRows =>
        LET ts == resp.body.time_series
        IN  /\ Len(ts) <= 5
            /\ Len(ts) = 5 \/ Len(ts) = Cardinality(SubsetKeys)
            /\ \A i \in 1..Len(ts) : ts[i].timestamp \in SubsetKeys
            /\ \A i \in 1..Len(ts) - 1 : LexLess(ts[i + 1].timestamp, ts[i].timestamp)
            /\ \A k \in SubsetKeys :
                   (\A i \in 1..Len(ts) : ts[i].timestamp # k) =>
                       \A i \in 1..Len(ts) : LexLess(k, ts[i].timestamp)

IsSubstring(x, s) ==
    \E i \in 0..(Len(Chars[s]) - Len(Chars[x])) :
        SubSeq(Chars[s], i + 1, i + Len(Chars[x])) = Chars[x]

\* the predicate a FilterParams f stands for: every field that is present
\* constrains the row
Specified(f, k, r) ==
    /\ r.api_key_id = k
    /\ ~IsNone(f.start_date) => r.created_at.day >= Val(f.start_date)
    /\ r.created_at.day <= f.end_date
    /\ ~IsNone(f.method) => r.method = Val(f.method)
    /\ ~IsNone(f.status_code) => r.status_code = Val(f.status_code)
    /\ ~IsNone(f.ip) => r.ip = Some(Val(f.ip))
    /\ ~IsNone(f.endpoint) => IsSubstring(Val(f.endpoint), r.endpoint)
    /\ ~IsNone(f.process_time_min) => r.process_time >= Val(f.process_time_min)
    /\ ~IsNone(f.process_time_max) => r.process_time <= Val(f.process_time_max)

\* C10: a row satisfies the conditions of build_log_filters iff it belongs
\* to the key and meets every field present in the FilterParams, whatever
\* the present value is; seen on the raw-logs pages that start at offset 0
\* and are not cut by the limit.
FiltersConstrainWhenPresent ==
    (IsRawLogs /\ resp.filter.offset = 0 /\ Len(logs) <= resp.filter.limit) =>
        {resp.body[i].id : i \in 1..Len(resp.body)} =
            {r.id : r \in {x \in Rows(logs) : Specified(resp.filter, resp.key, x)}}

----------------------------------------------------------------------------
(* Properties of GET /raw_logs, for requests served one at a time *)

\* the ids of the rows of an answered raw-logs page
PageIds == {resp.body[i].id : i \in 1..Len(resp.body)}

\* the query `query` supplies none of the optional filter fields
NoFilterSupplied(query) ==
    /\ IsNone(query.start_date) /\ IsNone(query.end_date)
    /\ IsNone(query.method) /\ IsNone(query.status_code)
    /\ IsNone(query.endpoint) /\ IsNone(query.ip)
    /\ IsNone(query.process_time_min) /\ IsNone(query.process_time_max)

\* C11: a raw-logs request that supplies no optional filter is evaluated
\* with the owner-equality predicate only: every row of the owner, whatever
\* its created_at, is on the page (seen on the pages that start at offset 0
\* and are not cut by the limit).
AbsentFiltersImposeNoConstraint ==
    (/\ IsRawLogs
     /\ NoFilterSupplied(req.filter)
     /\ req.filter.offset = 0
     /\ Len(logs) <= req.filter.limit) =>
        PageIds = {r.id : r \in {x \in Rows(logs) : x.api_key_id = resp.key}}

\* the row r of owner k meets every field that the query supplies
Requested(query, k, r) ==
    Specified([query EXCEPT !.end_date = IF IsNone(@) THEN r.created_at.day
                                         ELSE Val(@)],
              k, r)

\* the rows that match the query of the answered raw-logs request
Matching == {r \in Rows(logs) : Requested(req.filter, resp.key, r)}

Min(a, b) == IF a < b THEN a ELSE b
Max(a, b) == IF a > b THEN a ELSE b

\* C12: a raw-logs page holds at most limit (<= 100) rows, all of the
\* caller's key and matching the filters: the rows at positions
\* offset .. offset+limit-1 of the matching rows in ascending order of the
\* order_by column; it is the empty list when nothing matches or the offset
\* is past the end.
PageOfMatchingRows ==
    IsRawLogs =>
        LET body == resp.body
            col == req.filter.order_by
            offset == req.filter.offset
            limit == req.filter.limit
            row(i) == logs[body[i].id]
        IN  /\ limit <= 100
            /\ Len(body) = Min(limit, Max(0, Cardinality(Matching) - offset))
            /\ \A i \in 1..Len(body) :
                   /\ row(i) \in Matching
                   /\ body[i] = LogOutput(row(i))
                   /\ \A j \in 1..Len(body) : body[i].id = body[j].id => i = j
                   /\ \A j \in (i + 1)..Len(body) : ~ColLess(col, row(j), row(i))
                   /\ Cardinality({r \in Matching : ColLess(col, r, row(i))})
                          <= offset + i - 1
                   /\ Cardinality({r \in Matching : ~ColLess(col, row(i), r)})
                          >= offset + i

----------------------------------------------------------------------------
(* Properties of ingestion, for requests served one at a time *)

\* a /track request has been answered, and answered with success
TrackAnswered == req.route = "track" /\ resp # NoResponse
Tracked == TrackAnswered /\ resp.op = "track" /\ resp.status = 200

\* the row the last successful /track stored
Stored == logs[Len(logs)]

\* the character with ASCII code c
CharOf(c) == CHOOSE ch \in DOMAIN CharCode : CharCode[ch] = c

\* the string `low` is the string s in lower case
IsLowerOf(low, s) ==
    Chars[low] = [i \in 1..StrLen(s) |-> CharOf(LowerCode(CharCode[Chars[s][i]]))]

\* the strings s and t differ in the case of their letters at most
SameIgnoringCase(s, t) ==
    /\ StrLen(s) = StrLen(t)
    /\ \A i \in 1..StrLen(s) :
           LowerCode(CharCode[Chars[s][i]]) = LowerCode(CharCode[Chars[t][i]])

IsMethod(s) == \E m \in AllowedMethods : SameIgnoringCase(s, m)

\* C13: round trip.  The record stored by a successful /track and returned
\* by raw logs carries the method and the status_code of the body, the
\* lower-cased endpoint of the body and its process_time rounded to 2
\* decimals.
RoundTrip ==
    /\ Tracked =>
          LET out == LogOutput(Stored)
          IN  /\ out.method = req.body.method.s
              /\ 1000 * out.status_code = req.body.status_code.n
              /\ IsLowerOf(out.endpoint, req.body.endpoint.s)
              /\ out.process_time = Round2(Rat(req.body.process_time.n, 1000))
    /\ IsRawLogs =>
          \A i \in 1..Len(resp.body) :
              LET row == logs[resp.body[i].id]
              IN  /\ resp.body[i].method = row.method
                  /\ resp.body[i].endpoint = row.endpoint
                  /\ resp.body[i].status_code = row.status_code
                  /\ resp.body[i].process_time = Round2(Rat(row.process_time, 1000))

\* the string has no character other than control characters and blanks
Blank(s) == \A i \in 1..StrLen(s) : CharCode[Chars[s][i]] <= 32 \/ CharCode[Chars[s][i]] = 127

\* the body breaks one of the rules of a LogRecord
ViolatesRule(body) ==
    \/ body.method.t # "str" \/ body.method.s = "" \/ ~IsMethod(body.method.s)
    \/ body.status_code.t # "num"
    \/ body.status_code.n % 1000 # 0
    \/ body.status_code.n < 100000 \/ body.status_code.n > 599000
    \/ body.process_time.t # "num" \/ body.process_time.n < 0
    \/ body.created_at.t # "str" \/ body.created_at.s \notin DOMAIN FromIso
    \/ body.endpoint.t # "str" \/ Blank(body.endpoint.s)
    \/ StrLen(body.endpoint.s) > 200
    \/ body.extra

\* C14: an ingest request whose body breaks a rule of a LogRecord is
\* rejected with a validation error (or with 401 when its key is rejected
\* first), and the step that answers it leaves the log store as it was.
InvalidPayloadRejected ==
    [][(req'.route = "track" /\ resp' # NoResponse /\ ViolatesRule(req'.body)) =>
          /\ logs' = logs
          /\ \/ resp' = Unprocessable
             \/ resp'.status = 401 /\ req'.header \notin GoodHeaders]_vars

\* C14 witness: a body with status_code 600 rejected with 422 while the
\* store holds rows
InvalidPayloadRejectedWitness ==
    /\ TrackAnswered
    /\ req.body.status_code = JInt(600)
    /\ resp = Unprocessable
    /\ Len(logs) > 0

SentinelIps == {JStr(""), JStr("null"), JStr("None")}

MethodCaseInsensitive ==
    (/\ TrackAnswered
     /\ req.header \in GoodHeaders
     /\ ~ViolatesRule([req.body EXCEPT !.method = JStr("GET")])) =>
        IF req.body.method.t = "str" /\ req.body.method.s # ""
           /\ IsMethod(req.body.method.s)
        THEN Tracked /\ Stored.method = req.body.method.s
        ELSE resp = Unprocessable

----------------------------------------------------------------------------
(* Properties of the gate and of the request parameters, for requests      *)
(* served one at a time                                                    *)

\* the ids of the stored keys whose value is the header h
KeysWithValue(h) == {i \in KeyIds : APIKeys[i].api_key = Val(h)}

\* the header is missing, empty, longer than 64 characters, or the value
\* of no stored key
BadKey(h) ==
    \/ IsNone(h)
    \/ Val(h) = ""
    \/ StrLen(Val(h)) > 64
    \/ KeysWithValue(h) = {}

\* C17: a request with a bad key is answered 401 (unless its window or
\* filter is refused before the key is looked at), no handler runs for it
\* and the store is unchanged; a request that reaches its handler runs
\* under the stored key whose value is the header.
AccessGate ==
    [][(req'.route # "none" /\ resp' # NoResponse) =>
          IF BadKey(req'.header)
          THEN /\ logs' = logs
               /\ agg' = agg
               /\ \/ resp'.status = 401
                  \/ resp'.status = 500 /\ req'.route # "track"
          ELSE /\ resp'.status = 401 =>
                      /\ req'.route # "track"
                      /\ get_current_user(req'.token).status = 401
               /\ (resp'.op \in {"dashboard", "raw_logs", "report"}
                     /\ resp'.status = 200) =>
                      resp'.key \in KeysWithValue(req'.header)
               /\ (resp'.op = "track" /\ resp'.status = 200) =>
                      logs'[Len(logs')].api_key_id \in KeysWithValue(req'.header)]_vars

\* C17 witness: a valid body sent with an unknown key has been answered 401
\* while the store holds rows
AccessGateWitness ==
    /\ TrackAnswered
    /\ req.header = Some("invalid")
    /\ req.body = Users0
    /\ resp = Denied("Invalid API Key")
    /\ Len(logs) > 0

\* the TimeSeriesParam of the request is well formed
WellFormed(query) == query.period \in Periods /\ query.start < query.end

\* C18: a TimeSeriesParam is accepted iff its period is one of the five
\* and start_date < end_date: compute_summary and get_report_data run only
\* with a well-formed window, a malformed one is refused, and a dashboard
\* request with a well-formed one, a stored key and the token of a user is
\* answered.
WindowValidated ==
    /\ req.route \in {"dashboard", "report"} =>
          /\ agg.pc # "idle" => WellFormed(req.query)
          /\ resp # NoResponse =>
                /\ (resp.op \in {"dashboard", "report"} /\ resp.status = 200) =>
                       WellFormed(req.query)
                /\ ~WellFormed(req.query) => resp.status # 200
                /\ (/\ WellFormed(req.query)
                    /\ req.route = "dashboard"
                    /\ ~BadKey(req.header)
                    /\ req.token = Some("valid")) => IsDashboard
    /\ agg.pc # "idle" => agg.start < agg.end

\* C18 witness: a dashboard request with a stored key and
\* start_date = end_date has been refused
WindowValidatedWitness ==
    /\ req.route = "dashboard"
    /\ ~BadKey(req.header)
    /\ req.query.period \in Periods
    /\ req.query.start = req.query.end
    /\ resp # NoResponse
    /\ resp.status # 200

LogRecordFields ==
    {"id", "created_at", "method", "endpoint", "ip", "process_time",
     "status_code"}

\* C19: a FilterParams that passed validation has 0 < limit <= 100,
\* offset >= 0, order_by among the field names of a LogRecord,
\* start_date <= end_date, and process_time_min < process_time_max whenever
\* both are present, also when a bound is 0.
FilterParamsInvariant ==
    IsRawLogs =>
        LET f == resp.filter
        IN  /\ f.limit > 0 /\ f.limit <= 100
            /\ f.offset >= 0
            /\ f.order_by \in LogRecordFields
            /\ ~IsNone(f.start_date) => Val(f.start_date) <= f.end_date
            /\ (~IsNone(f.process_time_min) /\ ~IsNone(f.process_time_max)) =>
                   Val(f.process_time_min) < Val(f.process_time_max)

\* C20: the log store is append-only and only ingestion writes to it: the
\* step that answers a /track with success adds one row, with a new id and
\* the id of the key of the request, after the rows there were; every other
\* step (dashboard, raw logs, report, a refused request, a report that
\* fails to render) leaves the rows as they were.
AppendOnly ==
    [][IF resp'.op = "track" /\ resp'.status = 200
       THEN /\ Len(logs') = Len(logs) + 1
            /\ SubSeq(logs', 1, Len(logs)) = logs
            /\ logs'[Len(logs')].api_key_id \in KeysWithValue(req'.header)
            /\ \A i \in 1..Len(logs) : logs[i].id # logs'[Len(logs')].id
       ELSE logs' = logs]_vars

\* C20 witness: key 2 has ingested a row on top of the rows of key 1, and
\* a report has failed to render
AppendOnlyWitness ==
    \/ /\ Tracked
       /\ Len(logs) > Len(SeedLogs)
       /\ Stored.api_key_id = 2
    \/ /\ req.route = "report"
       /\ resp = ServerError
       /\ WellFormed(req.query)
       /\ Len(logs) > Len(SeedLogs)

\* the stored users whose token the request carries
UsersOfToken(token) ==
    {u \in Rows(Users) : /\ ~IsNone(token)
                         /\ Val(token) \in DOMAIN TokenSub
                         /\ u.username = TokenSub[Val(token)]}

\* C26: a dashboard, raw_logs or report request is answered with the data
\* of an API key only for the user that owns the key: a request of user U
\* that presents a key of another user V is rejected.
OwnerOnly ==
    (resp.op \in {"dashboard", "raw_logs", "report"} /\ resp.status = 200) =>
        \E u \in UsersOfToken(req.token) : APIKeys[resp.key].user_id = u.id

----------------------------------------------------------------------------
(* Properties of the time series and of top_ips, for requests served one   *)
(* at a time                                                               *)

\* the rows of the subset in the bucket of an entry of time_series
RowsOfBucket(entry) ==
    {r \in Subset : BucketKey(resp.period, r.created_at) = entry.timestamp}

\* C24: each time_series bucket reports requests = the number of rows of
\* the subset in the bucket and error_rate = errors / requests * 100
\* rounded to 2 decimals, the fractional part kept; every row of the subset
\* falls in exactly one bucket (of those reported, when the subset has more
\* than the 50 that get_time_series keeps).
BucketRates ==
    HasRows =>
        LET ts == resp.body.time_series
        IN  /\ \A i \in 1..Len(ts) :
                   LET G == RowsOfBucket(ts[i])
                       errors == Cardinality({r \in G : r.status_code >= 400
                                                        /\ r.status_code <= 599})
                   IN  /\ ts[i].requests = Cardinality(G)
                       /\ ts[i].error_rate =
                              Some(Rat(RoundHalfEven(10000 * errors, Cardinality(G)),
                                       100))
            /\ \A r \in Subset :
                   LET n == Cardinality({i \in 1..Len(ts) :
                                           r \in RowsOfBucket(ts[i])})
                   IN  /\ n <= 1
                       /\ Cardinality(SubsetKeys) <= TimeSeriesLimit => n = 1

\* the ISO year and ISO week of the days 0..39: day 0 is the Monday of week
\* 52 of 2024, day 7 (2024-12-30) the Monday of week 1 of 2025
IsoWeek(d) == IF d < 7 THEN <<2024, 52>> ELSE <<2025, d \div 7>>

\* created_at truncated to the period, the week being the ISO week
Truncated(period, t) ==
    CASE period = "minutely" -> <<t.day, t.min>>
      [] period = "hourly" -> <<t.day, t.min \div 60>>
      [] period = "daily" -> <<t.day>>
      [] period = "weekly" -> IsoWeek(t.day)
      [] period = "monthly" -> <<Year(t.day), Month(t.day)>>

\* C25: two rows of the subset are in the same bucket iff their created_at
\* agree once truncated to the period: with weekly, iff they lie in the
\* same ISO week, also across a year boundary.
BucketsAreTruncations ==
    HasRows =>
        LET ts == resp.body.time_series
            groups == {{r \in Subset : Truncated(resp.period, r.created_at)
                                         = Truncated(resp.period, q.created_at)} :
                       q \in Subset}
        IN  /\ Len(ts) = Cardinality(groups)
            /\ \A G \in groups : \E i \in 1..Len(ts) : RowsOfBucket(ts[i]) = G

\* C24 witness: a bucket of 7 rows with 3 errors reports 42.86
BucketRatesWitness ==
    /\ HasRows
    /\ \E i \in 1..Len(resp.body.time_series) :
           LET e == resp.body.time_series[i]
           IN  /\ e.requests = 7
               /\ Cardinality({r \in RowsOfBucket(e) : r.status_code >= 400}) = 3
               /\ e.error_rate = Some(Rat(4286, 100))
    /\ Len(resp.body.time_series) >= 2

\* C28: every entry of top_ips has an ip, and top_ips has min(5, unique_ips)
\* entries, also when rows of the subset have no ip.
TopIpsNonNull ==
    HasRows =>
        LET top == resp.body.top_ips
        IN  /\ \A i \in 1..Len(top) : top[i].ip # None
            /\ Len(top) = Min(5, resp.body.summary.unique_ips)
            /\ Len(top) <= resp.body.summary.unique_ips

----------------------------------------------------------------------------
(* Properties of the auth router (SpecAuth)                                *)

\* worker w answers a request in this step
Answers(w) == authreq'[w] # authreq[w] /\ authreq'[w].pc = "done"

\* the step adds one row to the apikey table and leaves the others alone
OneKeyAdded ==
    /\ Len(keys') = Len(keys) + 1
    /\ SubSeq(keys', 1, Len(keys)) = keys

\* the lifecycle of the keys over one step; registrationCreates: a
\* successful registration creates a key of the new user
KeyLifecycleStep(registrationCreates) ==
    /\ Len(keys') >= Len(keys)
    /\ SubSeq(keys', 1, Len(keys)) = keys
    /\ \A w \in Workers :
           Answers(w) =>
               LET a == authreq'[w]
               IN  IF a.route = "generate_key" /\ a.status = 200
                   THEN /\ OneKeyAdded
                        /\ keys'[Len(keys')].api_key = a.body
                        /\ \E i \in 1..Len(users) :
                               /\ users[i].username = TokenSub[Val(a.token)]
                               /\ keys'[Len(keys')].user_id = users[i].id
                        /\ get_api_key_of(keys', Some(a.body)).status = 200
                        /\ get_api_key_of(keys', Some(a.body)).id
                              = keys'[Len(keys')].id
                   ELSE IF a.route = "register" /\ a.status = 200
                   THEN IF registrationCreates
                        THEN /\ OneKeyAdded
                             /\ keys'[Len(keys')].user_id = a.id
                        ELSE keys' = keys
                   ELSE IF a.route = "resolve"
                   THEN /\ keys' = keys
                        /\ \A i \in 1..Len(keys) :
                               keys[i].api_key = Val(a.header) =>
                                   a.status = 200 /\ a.id = keys[i].id
                   ELSE keys' = keys

----------------------------------------------------------------------------
(* Properties of the tracking middleware (SpecMw)                          *)

\* C22: send_log never raises: whatever the delivery does (the service
\* answers with an error, the connection fails, the request times out), the
\* exception is discarded, the POST is not tried again, and the middleware
\* goes on to return the response of the handler; the only exception that
\* leaves the middleware is the handler's own.
DeliveryFailuresDiscarded ==
    /\ mw.pc \in {"sent", "returned"} => Len(mw.posts) = 1
    /\ mw.pc = "raised" => mw.posts = <<>> /\ mw.calls = <<>>
    /\ mw.pc = "returned" => mw.returned = mw.response
    /\ mw.pc \in {"idle", "handling", "sending"} => mw.posts = <<>>

\* C22 witness: the delivery raised and the response of the handler went
\* back to the client
DeliveryFailuresDiscardedWitness ==
    /\ mw.pc = "returned"
    /\ mw.posts[1].delivery.raises
    /\ mw.returned.status_code = 200

\* C23: when the handler returns, the middleware calls send_log exactly
\* once, after the handler has returned, with the api key given at creation
\* and a log of the request's method, its URL path, the status code of the
\* response, a float process_time and the client host (no ip without
\* client info), and then returns the handler's response unchanged.
SendLogOncePerResponse ==
    /\ mw.pc \in {"idle", "handling", "raised"} => mw.calls = <<>>
    /\ mw.pc \in {"sending", "sent", "returned"} =>
          /\ Len(mw.calls) = 1
          /\ mw.calls[1].api_key = mw.api_key
          /\ LET log == mw.calls[1].log
             IN  /\ log.method = mw.request.method
                 /\ log.endpoint = <<mw.request.url.path>>
                 /\ log.status_code = mw.response.status_code
                 /\ log.process_time \in [n : Nat, d : Nat \ {0}]
                 /\ log.ip = IF mw.request.client = None THEN None
                             ELSE Some(Val(mw.request.client).host)
    /\ mw.pc \in {"sent", "returned"} =>
          /\ Len(mw.posts) = 1
          /\ mw.posts[1].json = mw.calls[1].log
          /\ mw.posts[1].key = mw.api_key
    /\ mw.pc = "returned" => mw.returned = mw.response

\* C23 witness: a request without client info and with a query string has
\* been answered 404 by the handler and the response returned
SendLogOncePerResponseWitness ==
    /\ mw.pc = "returned"
    /\ mw.request.client = None
    /\ mw.request.url.query # ""
    /\ mw.returned.status_code = 404
    /\ mw.calls[1].log.ip = None
    /\ mw.calls[1].log.process_time = Rat(125, 1)

----------------------------------------------------------------------------
(* Properties of the aggregation engine under parallel workers (SpecConc) *)

\* C3: all views of one summary come from one filtered subset, also when
\* /track commits between the queries of the call: total_requests is the
\* sum of method_usage, the sum of status_codes and the denominator of
\* error_rate, and bounds unique_ips.
ViewsFromOneSubset ==
    HasRows =>
        LET total == resp.body.summary.total_requests
        IN  /\ SumValues(resp.body.method_usage) = total
            /\ SumValues(resp.body.status_codes) = total
            /\ resp.body.summary.unique_ips <= total
            /\ \E errors \in 0..total :
                   resp.body.summary.error_rate =
                       Some(Rat(RoundHalfEven(10000 * errors, total), 100))

====
